---------------------------- MODULE Spec2Model ----------------------------
(***************************************************************************)
(* Route batching of the delivery dashboard (DeliveryRoutes component):    *)
(* calculateDistance, calculateRouteTime, generateGoogleMapsUrl and        *)
(* groupOrdersIntoRoutes, the latter executed step by step.                *)
(*                                                                         *)
(* Numbers.  JavaScript numbers are modelled in fixed point:               *)
(*   - a coordinate is an offset north / east of the south-west corner of  *)
(*     the area, a whole number of 1/UnitsPerMile miles, or NaN;           *)
(*   - a distance is a whole number of 1/UnitsPerMile miles, or NaN;       *)
(*   - a time is a whole number of 1/TicksPerMinute minutes, or NaN.       *)
(* NaN behaves as in IEEE 754: it propagates through arithmetic and every  *)
(* comparison that involves it is false.                                   *)
(***************************************************************************)
EXTENDS Integers, Sequences, FiniteSets, TLC

(* ------------------------------ bounds ------------------------------- *)

\* Longest order list handed to groupOrdersIntoRoutes.
MaxOrders == 4

\* Runs of loadOrders in one session of the page.
MaxRuns == 4

(* ------------------------- number representation --------------------- *)

NaN == -1

UnitsPerMile == 5

TicksPerMinute == 2

\* `Infinity`, the initial nearestDistance of the nearest-neighbour scan:
\* larger than every finite distance of the model.
Infinity == 1000000

IsNaN(x) == x = NaN

\* a + b
Plus(a, b) == IF IsNaN(a) \/ IsNaN(b) THEN NaN ELSE a + b

\* a < b
Less(a, b) == ~IsNaN(a) /\ ~IsNaN(b) /\ a < b

\* a > b
Greater(a, b) == ~IsNaN(a) /\ ~IsNaN(b) /\ a > b

\* The largest k in lo..hi with k * k <= n.
RECURSIVE SqrtBetween(_, _, _)
SqrtBetween(n, lo, hi) ==
    IF lo = hi THEN lo
    ELSE LET mid == (lo + hi + 1) \div 2
         IN  IF mid * mid <= n THEN SqrtBetween(n, mid, hi)
                               ELSE SqrtBetween(n, lo, mid - 1)

\* Math.sqrt, rounded down to the grid of representable numbers (the
\* numbers of the model stay below 2^31).
Sqrt(n) == SqrtBetween(n, 0, 46340)

\* Math.round of a time, giving whole minutes (halves round up).
MathRound(t) == IF IsNaN(t) THEN NaN ELSE (2 * t + TicksPerMinute) \div (2 * TicksPerMinute)

(* ------------------------------ inputs ------------------------------- *)

Loc(la, ln) == [lat |-> la, lng |-> ln]

\* m miles as a coordinate offset.
Miles(m) == m * UnitsPerMile

\* A location one of whose coordinates is not a number.
NaNLocation == Loc(NaN, NaN)

\* Delivery locations the orders are drawn from; the business is at the
\* corner (0,0).
Locations ==
    { Loc(Miles(6), 0), Loc(Miles(1), Miles(2)), Loc(Miles(9), 0),
      Loc(0, Miles(9)), NaNLocation }

\* Values getBusinessLocation can produce for the module-level origin:
\* parseFloat of the stored text is a number or NaN.
Origins ==
    { [address |-> << "business", 0 >>, lat |-> 0, lng |-> 0],
      [address |-> << "business", 0 >>, lat |-> NaN, lng |-> NaN] }

\* The order with identifier i delivered at location l.
Order(i, l) ==
    [ id |-> i,
      deliveryLocation |-> l,
      deliveryAddress |-> <<"address", i>>,
      totalAmount |-> 10 + i,
      status |-> "ready",
      squareOrderId |-> i ]

\* `null` / `undefined` in a variable that otherwise holds an order.
Null == Order(0, NaNLocation)

\* Order lists with pairwise distinct ids, up to MaxOrders long.
OrderLists ==
    UNION { { [i \in 1..n |-> Order(i, locs[i])] : locs \in [1..n -> Locations] }
            : n \in 0..MaxOrders }

(* --------------------------- pure functions -------------------------- *)

\* Variant of calculateDistance: the longitude of the first point is not
\* subtracted.
calculateDistanceOneSided(lat1, lon1, lat2, lon2) ==
    IF IsNaN(lat1) \/ IsNaN(lon1) \/ IsNaN(lat2) \/ IsNaN(lon2)
    THEN NaN
    ELSE LET dLat == lat2 - lat1
             dLon == lon2
         IN  Sqrt(dLat * dLat + dLon * dLon)

\* calculateDistance: great-circle distance in miles.  The coordinates are
\* offsets on the ground, for which the haversine distance is the planar
\* distance: the sum of the squares of the two differences under the root.
\* A NaN coordinate makes every intermediate value NaN.
calculateDistance(lat1, lon1, lat2, lon2) ==
    IF IsNaN(lat1) \/ IsNaN(lon1) \/ IsNaN(lat2) \/ IsNaN(lon2)
    THEN NaN
    ELSE LET dLat == lat2 - lat1
             dLon == lon2 - lon1
             a    == dLat * dLat + dLon * dLon
         IN  Sqrt(a)

Distance(p, q) == calculateDistance(p.lat, p.lng, q.lat, q.lng)

\* Variant of TravelTime: driving takes no time.
TravelTimeFree(d) == IF IsNaN(d) THEN NaN ELSE 0

\* distance * 2.5 (minutes per mile), in ticks.
TravelTime(d) ==
    IF IsNaN(d) THEN NaN ELSE (d * 5 * TicksPerMinute) \div (2 * UnitsPerMile)

\* Variant of StopTime: 6 minutes per stop.
StopTimeDouble == 6 * TicksPerMinute

\* 3 minutes per stop.
StopTime == 3 * TicksPerMinute

\* Variant of SoftCap: the sidebar lets a route run to 40 minutes.
SoftCapLoose == 40 * TicksPerMinute

\* while (... && totalTime < 35)
SoftCap == 35 * TicksPerMinute

\* Variant of Ceiling: 60 minutes.
CeilingLoose == 60 * TicksPerMinute

\* if (projectedTotalTime > 45 && ...)
Ceiling == 45 * TicksPerMinute

PaletteSize == 10

\* Variant of Splice: array.shift(), the index is ignored.
SpliceFirst(arr, index) == Tail(arr)

\* array.splice(index, 1) on a 1-based sequence.
Splice(arr, index) ==
    [k \in 1..(Len(arr) - 1) |-> IF k < index THEN arr[k] ELSE arr[k + 1]]

\* encodeURIComponent of an address: one path segment of the URL.
encodeURIComponent(address) == <<"encoded", address>>

(* ------------------------------- state ------------------------------- *)

VARIABLES
    orders,              \* the caller's order list (the `orders` prop)
    restaurantLocation,  \* module-level origin, read once at load
    pc,                  \* position inside groupOrdersIntoRoutes
    unassignedOrders,    \* the pool
    routes,              \* routes closed so far; the return value at "done"
    routeCounter,
    currentRoute,
    currentLocation,
    totalTime,
    nextOrderIndex,      \* 1-based: JS index + 1
    nextOrder,
    argOrders,           \* history: the list as it was when the call began
    rejected,            \* history: candidate refused by the ceiling check
    rendered,            \* history: a previous call has returned
    prevOrders,          \* history: argument of the previous call
    prevRoutes,          \* history: result of the previous call
    moved,               \* history: the move the operator asked for last
    appOrders,           \* the `orders` state of App
    loaded,              \* history: the Square batches merged so far
    hook,                \* the state of useSquareOrders and its runs
    archive,             \* archivedRoutes, and what each id stood for
    settings             \* local storage, and the origin read at load

\* The state of the page around the grouping function.
page == << moved, appOrders, loaded, hook, archive, settings >>

vars == << orders, restaurantLocation, pc, unassignedOrders, routes,
           routeCounter, currentRoute, currentLocation, totalTime,
           nextOrderIndex, nextOrder, argOrders, rejected, rendered,
           prevOrders, prevRoutes, page >>

locals == << unassignedOrders, routes, routeCounter, currentRoute,
             currentLocation, totalTime, nextOrderIndex, nextOrder >>

history == << argOrders, rejected, rendered, prevOrders, prevRoutes >>

(* ------------------- functions over the module state ----------------- *)

\* calculateRouteTime: legs from the origin through the stops, 3 minutes
\* per stop, plus the way back; rounded to whole minutes.
RECURSIVE LegsTime(_, _, _)
LegsTime(stops, from, acc) ==
    IF stops = <<>> THEN << acc, from >>
    ELSE LET distance == Distance(from, Head(stops).deliveryLocation)
         IN  LegsTime(Tail(stops), Head(stops).deliveryLocation,
                      Plus(acc, Plus(TravelTime(distance), StopTime)))

\* Variant of calculateRouteTime: the return to the restaurant is counted
\* as one more stop, with its 3 minutes of service.
calculateRouteTimeReturnStop(stops) ==
    IF Len(stops) = 0 THEN 0
    ELSE LET legs           == LegsTime(stops, restaurantLocation, 0)
             returnDistance == Distance(legs[2], restaurantLocation)
         IN  MathRound(Plus(legs[1],
                            Plus(TravelTime(returnDistance), StopTime)))

calculateRouteTime(stops) ==
    IF Len(stops) = 0 THEN 0
    ELSE LET legs           == LegsTime(stops, restaurantLocation, 0)
             returnDistance == Distance(legs[2], restaurantLocation)
         IN  MathRound(Plus(legs[1], TravelTime(returnDistance)))

\* Variant of generateGoogleMapsUrl: the link ends at the last stop.
generateGoogleMapsUrlOneWay(stops) ==
    LET origin == encodeURIComponent(restaurantLocation.address)
    IN  <<origin>>
        \o [k \in 1..Len(stops) |-> encodeURIComponent(stops[k].deliveryAddress)]

\* generateGoogleMapsUrl: the path segments after .../maps/dir/.
generateGoogleMapsUrl(stops) ==
    LET origin == encodeURIComponent(restaurantLocation.address)
    IN  <<origin>>
        \o [k \in 1..Len(stops) |-> encodeURIComponent(stops[k].deliveryAddress)]
        \o <<origin>>

\* Variant of SumAmounts: the reducer returns the amount of the order
\* instead of adding it to the sum.
SumAmountsLast(stops) ==
    IF stops = <<>> THEN 0 ELSE stops[Len(stops)].totalAmount

RECURSIVE SumAmounts(_)
SumAmounts(stops) ==
    IF stops = <<>> THEN 0 ELSE Head(stops).totalAmount + SumAmounts(Tail(stops))

\* Variant of RouteGroup: orders is currentRoute.slice(1).
RouteGroupSliced(stops, counter) ==
    [ id            |-> << "route_", counter >>,
      name          |-> << "Route ", counter >>,
      orders        |-> Tail(stops),
      totalValue    |-> SumAmounts(stops),
      estimatedTime |-> calculateRouteTime(stops),
      googleMapsUrl |-> generateGoogleMapsUrl(stops),
      color         |-> (counter - 1) % PaletteSize ]

\* The object pushed onto routes (lines 163-171).
RouteGroup(stops, counter) ==
    [ id            |-> << "route_", counter >>,
      name          |-> << "Route ", counter >>,
      orders        |-> stops,
      totalValue    |-> SumAmounts(stops),
      estimatedTime |-> calculateRouteTime(stops),
      googleMapsUrl |-> generateGoogleMapsUrl(stops),
      color         |-> (counter - 1) % PaletteSize ]

\* Variant of NearestScan: distance <= nearestDistance, so that the last
\* of several nearest orders wins.
RECURSIVE NearestScanLastTie(_, _, _, _, _)
NearestScanLastTie(pool, from, index, nearestDistance, nearestIndex) ==
    IF index > Len(pool) THEN nearestIndex
    ELSE LET distance == Distance(from, pool[index].deliveryLocation)
         IN  IF Less(distance, nearestDistance) \/ distance = nearestDistance
             THEN NearestScanLastTie(pool, from, index + 1, distance, index)
             ELSE NearestScanLastTie(pool, from, index + 1, nearestDistance,
                                     nearestIndex)

\* The forEach of lines 139-151: index of the first pool member at the
\* least distance from `from`; index 1 when no distance is below Infinity.
RECURSIVE NearestScan(_, _, _, _, _)
NearestScan(pool, from, index, nearestDistance, nearestIndex) ==
    IF index > Len(pool) THEN nearestIndex
    ELSE LET distance == Distance(from, pool[index].deliveryLocation)
         IN  IF Less(distance, nearestDistance)
             THEN NearestScan(pool, from, index + 1, distance, index)
             ELSE NearestScan(pool, from, index + 1, nearestDistance, nearestIndex)

NearestIndex(pool, from) == NearestScan(pool, from, 1, Infinity, 1)

\* Lines 110-124 for the candidate nextOrder.
distanceToOrder == Distance(currentLocation, nextOrder.deliveryLocation)
returnDistance == Distance(nextOrder.deliveryLocation, restaurantLocation)

\* Variant of additionalTime: the time at the stop is left out.
additionalTimeNoService == TravelTime(distanceToOrder)

additionalTime == Plus(TravelTime(distanceToOrder), StopTime)
newReturnTime == TravelTime(returnDistance)

\* Variant of projectedTotalTime: the way back is left out.
projectedWithoutReturn == Plus(totalTime, additionalTime)

projectedTotalTime == Plus(Plus(totalTime, additionalTime), newReturnTime)

\* Variant of InnerLoopCondition: while (nextOrder).
InnerLoopConditionNoCap == nextOrder # Null

\* while (nextOrder && totalTime < 35)
InnerLoopCondition == nextOrder # Null /\ Less(totalTime, SoftCap)

\* Variant of ExceedsCeiling: the test of currentRoute.length is left out.
ExceedsCeilingAnyRoute == Greater(projectedTotalTime, Ceiling)

\* if (projectedTotalTime > 45 && currentRoute.length > 0) break;
ExceedsCeiling == Greater(projectedTotalTime, Ceiling) /\ Len(currentRoute) > 0

\* Variant of SpreadAllocatesNewArray: const unassignedOrders = orders.
SpreadReusesArray == FALSE

\* const unassignedOrders = [...orders]: the pool is a new array, not the
\* caller's array under another name.
SpreadAllocatesNewArray == TRUE

\* Variant of AdvanceLocation: the coordinates are written into the object
\* currentLocation refers to, which is restaurantLocation.
AdvanceLocationInPlace(location) ==
    /\ currentLocation' = location
    /\ restaurantLocation' =
           [restaurantLocation EXCEPT !.lat = location.lat,
                                      !.lng = location.lng]

\* currentLocation = nextOrder.deliveryLocation rebinds the local variable;
\* the object restaurantLocation is not written.
AdvanceLocation(location) ==
    /\ currentLocation' = location
    /\ UNCHANGED restaurantLocation

(* ------------------------------ actions ------------------------------ *)

\* No move has been asked for.
NoMove == [order |-> Null, from |-> 0, to |-> 0]

\* The page as it is mounted.
\* No Square batch has been merged: `before` is the list the last batch
\* was merged into, `distinct` tells that no batch so far named an order
\* twice.
NoLoad == [merged |-> FALSE, before |-> <<>>, distinct |-> TRUE]

\* useSquareOrders as it is mounted: no orders (0 stands for the empty
\* list, r for the orders fetched by run r), not loading, no error, no run
\* of loadOrders; overlapped is the history of two runs in flight at once.
HookMounted(locationId) ==
    [locationId |-> locationId, orders |-> 0, loading |-> FALSE,
     error |-> FALSE, runs |-> <<>>, overlapped |-> FALSE]

\* useState<string[]>([]) of archivedRoutes; orders is the history of the
\* stops each archived id had when it was archived, place by place.
NoArchive == [archivedRoutes |-> <<>>, orders |-> <<>>]

\* A text of local storage: the digits of a number (toString), letters,
\* or no entry under the key (getItem gives null).
Digits(n) == [kind |-> "digits", value |-> n]
Letters == [kind |-> "letters", value |-> 0]
NoItem == [kind |-> "null", value |-> 0]

\* parseFloat: the number of a text of digits, NaN for any other text.
parseFloat(text) == IF text.kind = "digits" THEN text.value ELSE NaN

\* a || b on texts: null is falsy.
OrElse(text, fallback) == IF text.kind = "null" THEN fallback ELSE text

\* defaultLocation of getBusinessLocation.
defaultLocation == [address |-> << "business", 0 >>, lat |-> 0, lng |-> 0]

\* getBusinessLocation over the entries of local storage.
getBusinessLocation(storage) ==
    [address |-> IF storage.businessAddress.kind = "null"
                 THEN defaultLocation.address
                 ELSE << "business", storage.businessAddress.value >>,
     lat |-> parseFloat(OrElse(storage.businessLat,
                               Digits(defaultLocation.lat))),
     lng |-> parseFloat(OrElse(storage.businessLng,
                               Digits(defaultLocation.lng)))]

\* The entries Settings writes for a location.
StorageOf(location) ==
    [businessAddress |-> Digits(location.address[2]),
     businessLat |-> IF IsNaN(location.lat) THEN Letters
                     ELSE Digits(location.lat),
     businessLng |-> IF IsNaN(location.lng) THEN Letters
                     ELSE Digits(location.lng)]

\* The page as it is loaded with the origin `location`: local storage holds
\* the entries the origin was read from.
SettingsAtLoad(location) ==
    [localStorage |-> StorageOf(location), atLoad |-> location]

PageInit ==
    /\ moved = NoMove
    /\ appOrders = orders
    /\ loaded = NoLoad
    /\ hook = HookMounted("")
    /\ archive = NoArchive
    /\ settings = SettingsAtLoad(restaurantLocation)

Init ==
    /\ orders \in OrderLists
    /\ restaurantLocation \in Origins
    /\ pc = "idle"
    /\ unassignedOrders = <<>>
    /\ routes = <<>>
    /\ routeCounter = 1
    /\ currentRoute = <<>>
    /\ currentLocation = restaurantLocation
    /\ totalTime = 0
    /\ nextOrderIndex = 1
    /\ nextOrder = Null
    /\ argOrders = orders
    /\ rejected = Null
    /\ rendered = FALSE
    /\ prevOrders = <<>>
    /\ prevRoutes = <<>>
    /\ PageInit

\* Variant of CallEmpty: a route without stops is returned for the empty
\* list.
CallEmptyPlaceholder ==
    /\ pc = "idle"
    /\ Len(orders) = 0
    /\ routes' = << RouteGroup(<<>>, 1) >>
    /\ pc' = "done"
    /\ argOrders' = orders
    /\ rejected' = Null
    /\ UNCHANGED << orders, restaurantLocation, unassignedOrders, routeCounter,
                    currentRoute, currentLocation, totalTime, nextOrderIndex,
                    nextOrder, rendered, prevOrders, prevRoutes >>
    /\ UNCHANGED page

\* Line 93: the early return for an empty list.
CallEmpty ==
    /\ pc = "idle"
    /\ Len(orders) = 0
    /\ routes' = <<>>
    /\ pc' = "done"
    /\ argOrders' = orders
    /\ rejected' = Null
    /\ UNCHANGED << orders, restaurantLocation, unassignedOrders, routeCounter,
                    currentRoute, currentLocation, totalTime, nextOrderIndex,
                    nextOrder, rendered, prevOrders, prevRoutes >>
    /\ UNCHANGED page

\* Lines 95-97: routes, the pool and the counter.
\* Variant of Call: orders whose coordinates are not numbers are left out
\* of the pool.
CallFilterValid ==
    /\ pc = "idle"
    /\ Len(orders) # 0
    /\ routes' = <<>>
    /\ unassignedOrders' =
           SelectSeq(orders, LAMBDA o : ~IsNaN(o.deliveryLocation.lat))
    /\ routeCounter' = 1
    /\ pc' = "outer"
    /\ argOrders' = orders
    /\ rejected' = Null
    /\ UNCHANGED << orders, restaurantLocation, currentRoute, currentLocation,
                    totalTime, nextOrderIndex, nextOrder, rendered, prevOrders,
                    prevRoutes >>
    /\ UNCHANGED page

\* Variant of Call: routes is a module-level array that is not emptied.
CallKeepRoutes ==
    /\ pc = "idle"
    /\ Len(orders) # 0
    /\ unassignedOrders' = orders
    /\ routeCounter' = 1
    /\ pc' = "outer"
    /\ argOrders' = orders
    /\ rejected' = Null
    /\ UNCHANGED << orders, restaurantLocation, routes, currentRoute,
                    currentLocation, totalTime, nextOrderIndex, nextOrder,
                    rendered, prevOrders, prevRoutes >>
    /\ UNCHANGED page

Call ==
    /\ pc = "idle"
    /\ Len(orders) # 0
    /\ routes' = <<>>
    /\ unassignedOrders' = orders
    /\ routeCounter' = 1
    /\ pc' = "outer"
    /\ argOrders' = orders
    /\ rejected' = Null
    /\ UNCHANGED << orders, restaurantLocation, currentRoute, currentLocation,
                    totalTime, nextOrderIndex, nextOrder, rendered, prevOrders,
                    prevRoutes >>
    /\ UNCHANGED page

\* Variant of StartRoute: nextOrderIndex and nextOrder are declared outside
\* the outer loop, and a candidate left by the previous pass is kept.
StartRouteKeepCandidate ==
    /\ pc = "outer"
    /\ Len(unassignedOrders) > 0
    /\ currentRoute' = <<>>
    /\ currentLocation' = restaurantLocation
    /\ totalTime' = 0
    /\ IF nextOrder # Null /\ routes # <<>>
       THEN UNCHANGED << nextOrderIndex, nextOrder >>
       ELSE /\ nextOrderIndex' = 1
            /\ nextOrder' = unassignedOrders[1]
    /\ pc' = "inner"
    /\ UNCHANGED << orders, restaurantLocation, unassignedOrders, routes,
                    routeCounter, history >>
    /\ UNCHANGED page

\* Variant of StartRoute: the route starts with the order nearest to the
\* restaurant.
StartRouteNearest ==
    /\ pc = "outer"
    /\ Len(unassignedOrders) > 0
    /\ currentRoute' = <<>>
    /\ currentLocation' = restaurantLocation
    /\ totalTime' = 0
    /\ nextOrderIndex' = NearestIndex(unassignedOrders, restaurantLocation)
    /\ nextOrder' = unassignedOrders[nextOrderIndex']
    /\ pc' = "inner"
    /\ UNCHANGED << orders, restaurantLocation, unassignedOrders, routes,
                    routeCounter, history >>
    /\ UNCHANGED page

\* Lines 99-106: the outer loop is entered; a new route starts at the origin
\* with the first pool member as candidate.
StartRoute ==
    /\ pc = "outer"
    /\ Len(unassignedOrders) > 0
    /\ currentRoute' = <<>>
    /\ currentLocation' = restaurantLocation
    /\ totalTime' = 0
    /\ nextOrderIndex' = 1
    /\ nextOrder' = unassignedOrders[1]
    /\ pc' = "inner"
    /\ UNCHANGED << orders, restaurantLocation, unassignedOrders, routes,
                    routeCounter, history >>
    /\ UNCHANGED page

\* Line 108: the inner loop condition is false.
InnerExit ==
    /\ pc = "inner"
    /\ ~InnerLoopCondition
    /\ pc' = "close"
    /\ UNCHANGED << orders, restaurantLocation, locals, history >>
    /\ UNCHANGED page

\* Lines 127-129: the candidate does not fit; it stays in the pool.
InnerBreak ==
    /\ pc = "inner"
    /\ InnerLoopCondition
    /\ ExceedsCeiling
    /\ rejected' = nextOrder
    /\ pc' = "close"
    /\ UNCHANGED << orders, restaurantLocation, locals, argOrders, rendered,
                    prevOrders, prevRoutes >>
    /\ UNCHANGED page

\* Lines 131-157: the candidate is committed and the nearest remaining
\* pool member becomes the next candidate.
InnerCommit ==
    /\ pc = "inner"
    /\ InnerLoopCondition
    /\ ~ExceedsCeiling
    /\ currentRoute' = Append(currentRoute, nextOrder)
    /\ unassignedOrders' = Splice(unassignedOrders, nextOrderIndex)
    /\ orders' = IF SpreadAllocatesNewArray THEN orders
                 ELSE Splice(orders, nextOrderIndex)
    /\ totalTime' = Plus(totalTime, additionalTime)
    /\ AdvanceLocation(nextOrder.deliveryLocation)
    /\ IF Len(unassignedOrders') > 0
       THEN LET nearestIndex ==
                    NearestIndex(unassignedOrders', nextOrder.deliveryLocation)
            IN  /\ nextOrderIndex' = nearestIndex
                /\ nextOrder' = unassignedOrders'[nearestIndex]
       ELSE /\ nextOrder' = Null
            /\ UNCHANGED nextOrderIndex
    /\ rejected' = Null
    /\ UNCHANGED << pc, routes, routeCounter, argOrders, rendered, prevOrders,
                    prevRoutes >>
    /\ UNCHANGED page

\* Variant of CloseRoute: routes.unshift instead of routes.push.
CloseRouteUnshift ==
    /\ pc = "close"
    /\ IF Len(currentRoute) > 0
       THEN /\ routes' = << RouteGroup(currentRoute, routeCounter) >> \o routes
            /\ routeCounter' = routeCounter + 1
       ELSE UNCHANGED << routes, routeCounter >>
    /\ pc' = "outer"
    /\ UNCHANGED << orders, restaurantLocation, unassignedOrders, currentRoute,
                    currentLocation, totalTime, nextOrderIndex, nextOrder,
                    history >>
    /\ UNCHANGED page

\* Variant of CloseRoute: routeCounter++ is missing.
CloseRouteSameCounter ==
    /\ pc = "close"
    /\ IF Len(currentRoute) > 0
       THEN routes' = Append(routes, RouteGroup(currentRoute, routeCounter))
       ELSE UNCHANGED routes
    /\ pc' = "outer"
    /\ UNCHANGED << orders, restaurantLocation, unassignedOrders, routeCounter,
                    currentRoute, currentLocation, totalTime, nextOrderIndex,
                    nextOrder, history >>
    /\ UNCHANGED page

\* Lines 160-174: a non-empty route is pushed and the counter advances.
CloseRoute ==
    /\ pc = "close"
    /\ IF Len(currentRoute) > 0
       THEN /\ routes' = Append(routes, RouteGroup(currentRoute, routeCounter))
            /\ routeCounter' = routeCounter + 1
       ELSE UNCHANGED << routes, routeCounter >>
    /\ pc' = "outer"
    /\ UNCHANGED << orders, restaurantLocation, unassignedOrders, currentRoute,
                    currentLocation, totalTime, nextOrderIndex, nextOrder,
                    history >>
    /\ UNCHANGED page

\* Lines 99 and 177: the pool is empty, the routes are returned.
Return ==
    /\ pc = "outer"
    /\ Len(unassignedOrders) = 0
    /\ pc' = "done"
    /\ UNCHANGED << orders, restaurantLocation, locals, history >>
    /\ UNCHANGED page

\* Line 204: the component renders again and calls the function with the
\* list it holds now; the result of the finished call is remembered.
Rerender ==
    /\ pc = "done"
    /\ pc' = "idle"
    /\ rendered' = TRUE
    /\ prevOrders' = argOrders
    /\ prevRoutes' = routes
    /\ UNCHANGED << orders, restaurantLocation, locals, argOrders, rejected >>
    /\ UNCHANGED page

Next ==
    \/ CallEmpty
    \/ Call
    \/ StartRoute
    \/ InnerExit
    \/ InnerBreak
    \/ InnerCommit
    \/ CloseRoute
    \/ Return
    \/ Rerender

Spec == Init /\ [][Next]_vars

(* ---------------------------- scenario A ----------------------------- *)

\* h hundredths of a degree of arc as a coordinate offset: one degree of
\* the sphere of radius 3959 miles is 69.1 miles long.
HundredthsOfDegree(h) == (h * 691 * UnitsPerMile) \div 1000

\* The destinations (0, 0.01), (0, 0.02) and (10, 10) of the scenario.
NearA == Loc(0, HundredthsOfDegree(1))
NextToNearA == Loc(0, HundredthsOfDegree(2))
FarA == Loc(HundredthsOfDegree(1000), HundredthsOfDegree(1000))

\* Order lists over the destinations of the scenario.
OrderListsA ==
    UNION { { [i \in 1..n |-> Order(i, locs[i])] :
                locs \in [1..n -> {NearA, NextToNearA, FarA}] }
            : n \in 0..MaxOrders }

\* The component is mounted with a list of the scenario and the business
\* at (0, 0).
InitA ==
    /\ orders \in OrderListsA
    /\ restaurantLocation = [address |-> << "business", 0 >>, lat |-> 0, lng |-> 0]
    /\ pc = "idle"
    /\ unassignedOrders = <<>>
    /\ routes = <<>>
    /\ routeCounter = 1
    /\ currentRoute = <<>>
    /\ currentLocation = restaurantLocation
    /\ totalTime = 0
    /\ nextOrderIndex = 1
    /\ nextOrder = Null
    /\ argOrders = orders
    /\ rejected = Null
    /\ rendered = FALSE
    /\ prevOrders = <<>>
    /\ prevRoutes = <<>>
    /\ PageInit

SpecA == InitA /\ [][Next]_vars

(* ---------------------------- scenario D ----------------------------- *)

\* The business in the middle of a cluster of destinations.
OriginD == [address |-> << "business", 0 >>, lat |-> 2, lng |-> 2]

\* Destinations 0.4 miles west, east and north of the business.
ClusterD == { Loc(2, 0), Loc(2, 4), Loc(4, 2) }

\* A destination 20 miles away.
FarD == Loc(2, 2 + Miles(20))

\* Every list of eight orders in the cluster, and the short lists that
\* may also hold the far destination.
OrderListsD ==
    { [i \in 1..8 |-> Order(i, locs[i])] : locs \in [1..8 -> ClusterD] }
    \cup
    UNION { { [i \in 1..n |-> Order(i, locs[i])] :
                locs \in [1..n -> ClusterD \cup {FarD}] }
            : n \in 0..MaxOrders }

InitD ==
    /\ orders \in OrderListsD
    /\ restaurantLocation = OriginD
    /\ pc = "idle"
    /\ unassignedOrders = <<>>
    /\ routes = <<>>
    /\ routeCounter = 1
    /\ currentRoute = <<>>
    /\ currentLocation = restaurantLocation
    /\ totalTime = 0
    /\ nextOrderIndex = 1
    /\ nextOrder = Null
    /\ argOrders = orders
    /\ rejected = Null
    /\ rendered = FALSE
    /\ prevOrders = <<>>
    /\ prevRoutes = <<>>
    /\ PageInit

SpecD == InitD /\ [][Next]_vars

(* ------------------------ invalid coordinates ------------------------ *)

\* convertSquareOrder's placeholder for an order that is not geocoded.
PlaceholderLocation == Loc(0, 0)

\* A business a thousand miles north and east of the point (0, 0).
BusinessI == Loc(Miles(1000), Miles(1000))

\* Origins getBusinessLocation can produce: the business, NaN from text
\* that is no number, and (0, 0) from stored zeros.
OriginsI ==
    { [address |-> << "business", 0 >>, lat |-> l.lat, lng |-> l.lng] :
        l \in { BusinessI, NaNLocation, PlaceholderLocation } }

\* Two geocoded destinations near the business, the placeholder and a
\* destination whose coordinates are not numbers.
LocationsI ==
    { Loc(BusinessI.lat + Miles(1), BusinessI.lng),
      Loc(BusinessI.lat, BusinessI.lng + Miles(2)),
      PlaceholderLocation, NaNLocation }

OrderListsI ==
    UNION { { [i \in 1..n |-> Order(i, locs[i])] : locs \in [1..n -> LocationsI] }
            : n \in 0..MaxOrders }

InitI ==
    /\ orders \in OrderListsI
    /\ restaurantLocation \in OriginsI
    /\ pc = "idle"
    /\ unassignedOrders = <<>>
    /\ routes = <<>>
    /\ routeCounter = 1
    /\ currentRoute = <<>>
    /\ currentLocation = restaurantLocation
    /\ totalTime = 0
    /\ nextOrderIndex = 1
    /\ nextOrder = Null
    /\ argOrders = orders
    /\ rejected = Null
    /\ rendered = FALSE
    /\ prevOrders = <<>>
    /\ prevRoutes = <<>>
    /\ PageInit

SpecI == InitI /\ [][Next]_vars

(* ------------------------- the map component ------------------------- *)

\* MapboxMap.tsx, lines 56-104: the inner loop of the map's own copy of
\* groupOrdersIntoRoutes, from a candidate index (0 for null) to the
\* finished route and the remaining pool.  Its calculateDistance (lines
\* 22-33) and its forEach scan (lines 92-101) are the text of the sidebar's.
RECURSIVE MapInnerLoop(_, _, _, _, _)
MapInnerLoop(pool, route, location, time, index) ==
    IF index = 0 \/ ~Less(time, 35 * TicksPerMinute)
    THEN << route, pool >>
    ELSE LET candidate       == pool[index]
             distanceTo      == Distance(location, candidate.deliveryLocation)
             distanceBack    == Distance(candidate.deliveryLocation,
                                         restaurantLocation)
             additional      == Plus(TravelTime(distanceTo), 3 * TicksPerMinute)
             projected       == Plus(Plus(time, additional),
                                     TravelTime(distanceBack))
             rest            == Splice(pool, index)
         IN  IF Greater(projected, 45 * TicksPerMinute) /\ Len(route) > 0
             THEN << route, pool >>
             ELSE MapInnerLoop(rest, Append(route, candidate),
                               candidate.deliveryLocation,
                               Plus(time, additional),
                               IF Len(rest) > 0
                               THEN NearestIndex(rest, candidate.deliveryLocation)
                               ELSE 0)

\* MapboxMap.tsx, lines 47-117: the outer loop.
RECURSIVE MapOuterLoop(_, _, _)
MapOuterLoop(pool, result, counter) ==
    IF Len(pool) = 0 THEN result
    ELSE LET pass == MapInnerLoop(pool, <<>>, restaurantLocation, 0, 1)
         IN  IF Len(pass[1]) > 0
             THEN MapOuterLoop(pass[2],
                               Append(result,
                                      [ id     |-> << "route_", counter >>,
                                        orders |-> pass[1],
                                        color  |-> (counter - 1) % PaletteSize ]),
                               counter + 1)
             ELSE MapOuterLoop(pass[2], result, counter)

\* MapboxMap.tsx, lines 36-120: groupOrdersIntoRoutes of the map.
MapGroupOrdersIntoRoutes(list) ==
    IF Len(list) = 0 THEN <<>> ELSE MapOuterLoop(list, <<>>, 1)

(* --------------------------- reordered lists ------------------------- *)

\* The list with the orders at positions k and k + 1 exchanged.
SwapAdjacent(list, k) ==
    [i \in 1..Len(list) |->
        IF i = k THEN list[k + 1] ELSE IF i = k + 1 THEN list[k] ELSE list[i]]

\* setOrders(squareOrders): the parent holds the orders as the service
\* returned them, here with two neighbours in the other order than before;
\* the component renders again with the new list (once per session).
Reorder ==
    /\ pc = "done"
    /\ ~rendered
    /\ \E k \in 1..(Len(orders) - 1) : orders' = SwapAdjacent(orders, k)
    /\ appOrders' = orders'
    /\ pc' = "idle"
    /\ rendered' = TRUE
    /\ prevOrders' = argOrders
    /\ prevRoutes' = routes
    /\ UNCHANGED << restaurantLocation, locals, argOrders, rejected >>
    /\ UNCHANGED << moved, loaded, hook, archive, settings >>

\* Order lists over destinations 2.2, 6 and 9 miles from the business.
OrderListsP ==
    UNION { { [i \in 1..n |-> Order(i, locs[i])] :
                locs \in [1..n -> { Loc(Miles(1), Miles(2)), Loc(Miles(6), 0),
                                    Loc(Miles(9), 0) }] }
            : n \in 0..MaxOrders }

InitP ==
    /\ orders \in OrderListsP
    /\ restaurantLocation = [address |-> << "business", 0 >>, lat |-> 0, lng |-> 0]
    /\ pc = "idle"
    /\ unassignedOrders = <<>>
    /\ routes = <<>>
    /\ routeCounter = 1
    /\ currentRoute = <<>>
    /\ currentLocation = restaurantLocation
    /\ totalTime = 0
    /\ nextOrderIndex = 1
    /\ nextOrder = Null
    /\ argOrders = orders
    /\ rejected = Null
    /\ rendered = FALSE
    /\ prevOrders = <<>>
    /\ prevRoutes = <<>>
    /\ PageInit

NextP == Next \/ Reorder

SpecP == InitP /\ [][NextP]_vars

(* --------------------- moving orders by hand ------------------------- *)

\* The list with the order o put after the orders created up to o.
InsertByCreatedAt(o, sorted) ==
    LET k == Cardinality({ i \in 1..Len(sorted) : sorted[i].id <= o.id })
    IN  SubSeq(sorted, 1, k) \o << o >> \o SubSeq(sorted, k + 1, Len(sorted))

\* Array.prototype.sort by createdAt, oldest first (stable); the orders
\* are numbered in the order of their creation.
RECURSIVE SortByCreatedAt(_)
SortByCreatedAt(list) ==
    IF list = <<>> THEN <<>>
    ELSE InsertByCreatedAt(list[Len(list)],
                           SortByCreatedAt(SubSeq(list, 1, Len(list) - 1)))

\* activeOrders of the parent: the orders ready or out for delivery,
\* oldest first.
activeOrders(list) ==
    SortByCreatedAt(SelectSeq(list,
        LAMBDA o : o.status = "ready" \/ o.status = "out_for_delivery"))

\* The updater of handleMoveOrderBetweenRoutes: a copy of the list is made,
\* the order is looked up, and the copy is returned as it is.
handleMoveOrderBetweenRoutes(prev, orderId, fromRouteIndex, toRouteIndex) ==
    LET updatedOrders == [i \in 1..Len(prev) |-> prev[i]]
    IN  IF \A i \in 1..Len(prev) : prev[i].id # orderId
        THEN prev
        ELSE updatedOrders

\* The updater of handleMoveOrderToQueue: the order gets the status
\* 'ready' (and loses driverId and groupId, which no order of the model
\* carries).
handleMoveOrderToQueue(prev, orderId) ==
    [i \in 1..Len(prev) |->
        IF prev[i].id = orderId THEN [prev[i] EXCEPT !.status = "ready"]
        ELSE prev[i]]

\* handleRouteDrop on another route, or one of the two arrow buttons:
\* handleMoveOrder(order.id, from, to) with from # to calls the parent,
\* whose new list is rendered (one move per session).
MoveOrder ==
    /\ pc = "done"
    /\ moved = NoMove
    /\ \E from \in 1..Len(routes), to \in 1..Len(routes) :
          /\ from # to
          /\ \E k \in 1..Len(routes[from].orders) :
                LET order == routes[from].orders[k]
                IN  /\ appOrders' = handleMoveOrderBetweenRoutes(
                                         appOrders, order.id, from, to)
                    /\ orders' = activeOrders(appOrders')
                    /\ moved' = [order |-> order, from |-> from, to |-> to]
    /\ pc' = "idle"
    /\ rendered' = TRUE
    /\ prevOrders' = argOrders
    /\ prevRoutes' = routes
    /\ UNCHANGED << restaurantLocation, locals, argOrders, rejected >>
    /\ UNCHANGED << loaded, hook, archive, settings >>

\* handleQueueDrop: an order dragged from a route is dropped on the queue
\* zone (recorded as a move to route 0).
QueueDrop ==
    /\ pc = "done"
    /\ moved = NoMove
    /\ \E from \in 1..Len(routes) :
          \E k \in 1..Len(routes[from].orders) :
              LET order == routes[from].orders[k]
              IN  /\ appOrders' = handleMoveOrderToQueue(appOrders, order.id)
                  /\ orders' = activeOrders(appOrders')
                  /\ moved' = [order |-> order, from |-> from, to |-> 0]
    /\ pc' = "idle"
    /\ rendered' = TRUE
    /\ prevOrders' = argOrders
    /\ prevRoutes' = routes
    /\ UNCHANGED << restaurantLocation, locals, argOrders, rejected >>
    /\ UNCHANGED << loaded, hook, archive, settings >>

\* Active orders 2.2 and 9 miles from the business, ready or on the road.
OrderListsM ==
    UNION { { [i \in 1..n |->
                 [Order(i, locs[i]) EXCEPT !.status = states[i]]] :
                locs \in [1..n -> { Loc(Miles(1), Miles(2)), Loc(Miles(9), 0) }],
                states \in [1..n -> { "ready", "out_for_delivery" }] }
            : n \in 0..MaxOrders }

InitM ==
    /\ orders \in OrderListsM
    /\ restaurantLocation = [address |-> << "business", 0 >>, lat |-> 0, lng |-> 0]
    /\ pc = "idle"
    /\ unassignedOrders = <<>>
    /\ routes = <<>>
    /\ routeCounter = 1
    /\ currentRoute = <<>>
    /\ currentLocation = restaurantLocation
    /\ totalTime = 0
    /\ nextOrderIndex = 1
    /\ nextOrder = Null
    /\ argOrders = orders
    /\ rejected = Null
    /\ rendered = FALSE
    /\ prevOrders = <<>>
    /\ prevRoutes = <<>>
    /\ PageInit

NextM == Next \/ MoveOrder \/ QueueDrop

SpecM == InitM /\ [][NextM]_vars

(* ---------------------- orders loaded from Square -------------------- *)

\* The squareOrderId values of a list (the Set built from prevOrders.map).
SquareIds(list) == { list[i].squareOrderId : i \in 1..Len(list) }

\* The list whose orders all have different squareOrderId values.
DistinctSquareIds(list) ==
    \A i, j \in 1..Len(list) :
        list[i].squareOrderId = list[j].squareOrderId => i = j

\* The other handler of the repository: the loaded orders replace the list.
handleSquareOrdersLoadedReplace(prevOrders_, squareOrders) == squareOrders

\* The updater of handleSquareOrdersLoaded: the loaded orders whose
\* squareOrderId no order of the list has are appended to the list.
handleSquareOrdersLoaded(prevOrders_, squareOrders) ==
    LET existingIds == SquareIds(prevOrders_)
        newSquareOrders ==
            SelectSeq(squareOrders,
                      LAMBDA o : o.squareOrderId \notin existingIds)
    IN  prevOrders_ \o newSquareOrders

\* convertSquareOrder and the geocoding of the hook: order s of Square
\* with its total and its place (orders 1 and 2 are 2.2 miles from the
\* business, order 3 is 9 miles away).
SquareOrder(s, amount) ==
    [Order(s, IF s = 3 THEN Loc(Miles(9), 0) ELSE Loc(Miles(1), Miles(2)))
        EXCEPT !.totalAmount = amount]

\* The orders Square can report: order 1 is reported with two totals.
SquareOrders ==
    { SquareOrder(1, 11), SquareOrder(1, 21), SquareOrder(2, 12),
      SquareOrder(3, 13) }

\* The batches handed to onOrdersLoaded: the effect of SquareIntegration
\* calls it with a list that is not empty.
SquareBatches ==
    UNION { [1..n -> SquareOrders] : n \in 1..2 }

\* The effect of SquareIntegration: onOrdersLoaded(orders) merges a batch
\* into the list of App, which renders its active orders again.
SquareOrdersLoaded ==
    /\ pc = "done"
    /\ \E squareOrders \in SquareBatches :
          /\ appOrders' = handleSquareOrdersLoaded(appOrders, squareOrders)
          /\ Len(appOrders') <= MaxOrders
          /\ loaded' = [merged |-> TRUE,
                        before |-> appOrders,
                        distinct |-> loaded.distinct
                                     /\ DistinctSquareIds(squareOrders)]
    /\ orders' = activeOrders(appOrders')
    /\ pc' = "idle"
    /\ rendered' = TRUE
    /\ prevOrders' = argOrders
    /\ prevRoutes' = routes
    /\ UNCHANGED << restaurantLocation, locals, argOrders, rejected >>
    /\ UNCHANGED << moved, hook, archive, settings >>

\* The lists App starts with: up to two orders, no squareOrderId twice.
OrderListsL ==
    { list \in UNION { [1..n -> SquareOrders] : n \in 0..2 } :
        /\ DistinctSquareIds(list)
        /\ activeOrders(list) = list }

InitL ==
    /\ orders \in OrderListsL
    /\ restaurantLocation = [address |-> << "business", 0 >>, lat |-> 0, lng |-> 0]
    /\ pc = "idle"
    /\ unassignedOrders = <<>>
    /\ routes = <<>>
    /\ routeCounter = 1
    /\ currentRoute = <<>>
    /\ currentLocation = restaurantLocation
    /\ totalTime = 0
    /\ nextOrderIndex = 1
    /\ nextOrder = Null
    /\ argOrders = orders
    /\ rejected = Null
    /\ rendered = FALSE
    /\ prevOrders = <<>>
    /\ prevRoutes = <<>>
    /\ PageInit

NextL == Next \/ SquareOrdersLoaded

SpecL == InitL /\ [][NextL]_vars

(* --------------------------- useSquareOrders -------------------------- *)

\* The runs of loadOrders that are awaiting the fetch or the geocoding.
InFlight == { r \in 1..Len(hook.runs) : hook.runs[r] = "awaiting" }

\* Everything but the hook.
besideHook ==
    << orders, restaurantLocation, pc, locals, history, moved, appOrders,
       loaded, archive, settings >>

\* loadOrders up to its first await, started by the effect, by the
\* 30-second interval or by refetch: with a locationId, loading is set and
\* the error is cleared (without one the function returns at once).
LoadOrders ==
    /\ hook.locationId # ""
    /\ Len(hook.runs) < MaxRuns
    /\ hook' = [hook EXCEPT !.loading = TRUE,
                            !.error = FALSE,
                            !.runs = Append(@, "awaiting"),
                            !.overlapped = @ \/ InFlight # {}]
    /\ UNCHANGED besideHook

\* The fetch and the geocoding of run r are over: setOrders with the orders
\* of the run, then the finally block.
FetchResolved ==
    /\ \E r \in InFlight :
          hook' = [hook EXCEPT !.orders = r,
                              !.loading = FALSE,
                              !.runs[r] = "resolved"]
    /\ UNCHANGED besideHook

\* The fetch or the geocoding of run r threw: setError, then the finally
\* block.
FetchRejected ==
    /\ \E r \in InFlight :
          hook' = [hook EXCEPT !.error = TRUE,
                              !.loading = FALSE,
                              !.runs[r] = "rejected"]
    /\ UNCHANGED besideHook

InitH ==
    /\ orders = <<>>
    /\ restaurantLocation = [address |-> << "business", 0 >>, lat |-> 0, lng |-> 0]
    /\ pc = "idle"
    /\ unassignedOrders = <<>>
    /\ routes = <<>>
    /\ routeCounter = 1
    /\ currentRoute = <<>>
    /\ currentLocation = restaurantLocation
    /\ totalTime = 0
    /\ nextOrderIndex = 1
    /\ nextOrder = Null
    /\ argOrders = orders
    /\ rejected = Null
    /\ rendered = FALSE
    /\ prevOrders = <<>>
    /\ prevRoutes = <<>>
    /\ moved = NoMove
    /\ appOrders = orders
    /\ loaded = NoLoad
    /\ hook \in { HookMounted(""), HookMounted("location") }
    /\ archive = NoArchive
    /\ settings = SettingsAtLoad(restaurantLocation)

NextH == LoadOrders \/ FetchResolved \/ FetchRejected

SpecH == InitH /\ [][NextH]_vars

(* --------------------------- archived routes -------------------------- *)

\* archivedRoutes.includes(routeId)
IsArchived(routeId) ==
    \E k \in 1..Len(archive.archivedRoutes) :
        archive.archivedRoutes[k] = routeId

\* The places of a list that hold something else than routeId (the filter
\* of handleUnarchiveRoute).
KeptPlaces(list, routeId) ==
    { k \in 1..Len(list) : list[k] # routeId }

\* list.filter over the places kept, in order.
RECURSIVE FilterPlaces(_, _, _)
FilterPlaces(list, places, k) ==
    IF k > Len(list) THEN <<>>
    ELSE (IF k \in places THEN << list[k] >> ELSE <<>>)
         \o FilterPlaces(list, places, k + 1)

\* Everything of the page but the archive, and the grouping beside it.
besideArchive ==
    << orders, restaurantLocation, pc, locals, history, moved, appOrders,
       loaded, hook, settings >>

\* handleArchiveRoute(route.id) for a route shown among the active routes:
\* the id is appended to archivedRoutes (the parent only logs it).
ArchiveRoute ==
    /\ pc = "done"
    /\ \E i \in 1..Len(routes) :
          /\ ~IsArchived(routes[i].id)
          /\ archive' =
                [archivedRoutes |-> Append(archive.archivedRoutes, routes[i].id),
                 orders |-> Append(archive.orders, routes[i].orders)]
    /\ UNCHANGED besideArchive

\* handleUnarchiveRoute(route.id) for a route shown in the history: the id
\* is filtered out of archivedRoutes.
UnarchiveRoute ==
    /\ pc = "done"
    /\ \E i \in 1..Len(routes) :
          /\ IsArchived(routes[i].id)
          /\ LET places == KeptPlaces(archive.archivedRoutes, routes[i].id)
             IN  archive' =
                   [archivedRoutes |->
                        FilterPlaces(archive.archivedRoutes, places, 1),
                    orders |-> FilterPlaces(archive.orders, places, 1)]
    /\ UNCHANGED besideArchive

NextR == Next \/ SquareOrdersLoaded \/ ArchiveRoute \/ UnarchiveRoute

\* The sidebar over the list of App: orders arrive from Square while the
\* operator archives and restores routes.
SpecR == InitL /\ [][NextR]_vars

(* ------------------------------ Settings ------------------------------ *)

\* What local storage can hold: nothing (a fresh browser), or the address
\* and the coordinates typed into Settings, the latitude not always a
\* number.
Storages ==
    { [businessAddress |-> NoItem, businessLat |-> NoItem,
       businessLng |-> NoItem],
      [businessAddress |-> Digits(1), businessLat |-> Digits(Miles(1)),
       businessLng |-> Digits(0)],
      [businessAddress |-> Digits(2), businessLat |-> Digits(0),
       businessLng |-> Digits(Miles(8))],
      [businessAddress |-> Digits(3), businessLat |-> Letters,
       businessLng |-> Digits(0)] }

\* Everything but the settings.
besideSettings ==
    << orders, restaurantLocation, pc, locals, history, moved, appOrders,
       loaded, hook, archive >>

\* Variant of SettingsSave: the saved location becomes the origin at once.
SettingsSaveApplied ==
    /\ pc \in { "idle", "done" }
    /\ \E storage \in Storages \ { settings.localStorage } :
          /\ storage.businessAddress.kind # "null"
          /\ settings' = [settings EXCEPT !.localStorage = storage]
          /\ restaurantLocation' = getBusinessLocation(storage)
    /\ UNCHANGED << orders, pc, locals, history, moved, appOrders, loaded,
                    hook, archive >>

\* handleSave of Settings, between two calls of the grouping: the fields of
\* the form are written to local storage.
SettingsSave ==
    /\ pc \in { "idle", "done" }
    /\ \E storage \in Storages \ { settings.localStorage } :
          /\ storage.businessAddress.kind # "null"
          /\ settings' = [settings EXCEPT !.localStorage = storage]
    /\ UNCHANGED besideSettings

\* Orders 2.2 and 9 miles from the default location, all ready.
OrderListsS ==
    UNION { { [i \in 1..n |-> Order(i, locs[i])] :
                locs \in [1..n -> { Loc(Miles(1), Miles(2)), Loc(Miles(9), 0) }] }
            : n \in 0..MaxOrders }

InitS ==
    /\ orders \in OrderListsS
    /\ \E storage \in Storages :
          /\ restaurantLocation = getBusinessLocation(storage)
          /\ settings = [localStorage |-> storage,
                         atLoad |-> restaurantLocation]
    /\ pc = "idle"
    /\ unassignedOrders = <<>>
    /\ routes = <<>>
    /\ routeCounter = 1
    /\ currentRoute = <<>>
    /\ currentLocation = restaurantLocation
    /\ totalTime = 0
    /\ nextOrderIndex = 1
    /\ nextOrder = Null
    /\ argOrders = orders
    /\ rejected = Null
    /\ rendered = FALSE
    /\ prevOrders = <<>>
    /\ prevRoutes = <<>>
    /\ moved = NoMove
    /\ appOrders = orders
    /\ loaded = NoLoad
    /\ hook = HookMounted("")
    /\ archive = NoArchive

NextS == Next \/ SettingsSave

SpecS == InitS /\ [][NextS]_vars

(* ===================================================================== *)
(*                               claims                                  *)
(* ===================================================================== *)

\* The stops of a list of routes, route after route.
RECURSIVE AllStops(_)
AllStops(rs) ==
    IF rs = <<>> THEN <<>> ELSE Head(rs).orders \o AllStops(Tail(rs))

Range(seq) == { seq[k] : k \in 1..Len(seq) }

\* Number of positions of seq that hold x.
Occurrences(seq, x) == Cardinality({ k \in 1..Len(seq) : seq[k] = x })

\* 45 minutes, the ceiling the claims speak of.
FortyFiveMinutes == 45 * TicksPerMinute

\* The origin of the running call.
Origin == restaurantLocation

\* Time of the leg from location p to the stop s, service included.
LegMinutes(p, s) == Plus(TravelTime(Distance(p, s.deliveryLocation)), StopTime)

\* Time of the way back from the stop s.
ReturnMinutes(s) == TravelTime(Distance(s.deliveryLocation, Origin))

\* Elapsed time of a route that has visited `stops` from the origin.
ElapsedMinutes(stops) == LegsTime(stops, Origin, 0)[1]

\* C1: when groupOrdersIntoRoutes has returned, every order of the input
\* list stands at exactly one position of exactly one route, and the routes
\* hold nothing but input orders.
C1_Partition ==
    pc = "done" =>
        LET stops == AllStops(routes)
        IN  /\ \A k \in 1..Len(argOrders) : Occurrences(stops, argOrders[k]) = 1
            /\ Range(stops) \subseteq Range(argOrders)
            /\ Len(stops) = Len(argOrders)

\* A call has returned three or more orders in two or more routes, one of
\* them with several stops.
C1_Witness ==
    /\ pc = "done"
    /\ Len(argOrders) >= 3
    /\ Len(routes) >= 2
    /\ \E i \in 1..Len(routes) : Len(routes[i].orders) >= 2

\* Rank of a position of the function inside one pass of the outer loop.
Variant ==
    4 * Len(unassignedOrders)
    + (CASE pc = "inner" /\ currentRoute # <<>> -> 3
         [] pc = "close" -> 2
         [] pc = "outer" -> 1
         [] OTHER -> 0)

\* A step of a running call lowers the rank.
VariantDecreases ==
    pc \in {"outer", "inner", "close"} => Variant' < Variant

\* C2: groupOrdersIntoRoutes terminates: every step of a running call
\* strictly lowers a natural number that is dominated by the size of the
\* pool, so no call runs for ever; a pass of the outer loop goes from the
\* loop head back to the loop head, hence each pass has removed at least
\* one order from the pool.
C2_Terminates == [][VariantDecreases]_vars

\* A call has returned after three or more passes of the outer loop.
C2_Witness ==
    /\ pc = "done"
    /\ Len(routes) >= 3

\* C3: no route pushed by groupOrdersIntoRoutes has zero stops.
C3_NoEmptyRoute ==
    \A i \in 1..Len(routes) : Len(routes[i].orders) >= 1

\* A call has returned routes, one of them with a single stop.
C3_Witness ==
    /\ pc = "done"
    /\ \E i \in 1..Len(routes) : Len(routes[i].orders) = 1

\* C4: a stop that is committed to a route which already has a stop was
\* within the ceiling when it was committed: the elapsed time of the stops
\* before it, plus its leg from the previous stop with the 3 minutes of
\* service, plus its way back to the origin, was not greater than 45.
C4_BudgetAtCommit ==
    [][ (pc = "inner" /\ Len(currentRoute) >= 1
           /\ Len(currentRoute') = Len(currentRoute) + 1)
        => LET stop     == currentRoute'[Len(currentRoute')]
               previous == currentRoute[Len(currentRoute)]
           IN  ~Greater(Plus(Plus(ElapsedMinutes(currentRoute),
                                  LegMinutes(previous.deliveryLocation, stop)),
                             ReturnMinutes(stop)),
                        FortyFiveMinutes) ]_vars

\* A route under construction has three stops, and its elapsed time is a
\* number.
C4_Witness ==
    /\ pc = "inner"
    /\ Len(currentRoute) >= 3
    /\ ~IsNaN(totalTime)

\* The round trip origin -> o -> origin alone, service included, is above
\* the ceiling.
Oversized(o) ==
    Greater(Plus(LegMinutes(Origin, o), ReturnMinutes(o)), FortyFiveMinutes)

\* No order of the list has a NaN coordinate.
AllNumbers(list) ==
    \A k \in 1..Len(list) :
        /\ ~IsNaN(list[k].deliveryLocation.lat)
        /\ ~IsNaN(list[k].deliveryLocation.lng)

\* Some route consists of the order o alone.
Alone(o) == \E i \in 1..Len(routes) : routes[i].orders = <<o>>

\* With a single order the result is one route that holds it.
SingleOrderSingleRoute ==
    Len(argOrders) = 1 => (Len(routes) = 1 /\ routes[1].orders = argOrders)

\* C5 as stated: an oversized destination is the only stop of its route
\* whatever the other destinations are.
C5_Original ==
    pc = "done" =>
        /\ \A k \in 1..Len(argOrders) :
               Oversized(argOrders[k]) => Alone(argOrders[k])
        /\ SingleOrderSingleRoute

\* C5, amended: an oversized destination is always assigned to some route,
\* and it is the only stop of that route when no destination of the list
\* has a NaN coordinate; a single destination gives one route holding it.
C5_OversizedIsolated ==
    pc = "done" =>
        /\ \A k \in 1..Len(argOrders) :
               Oversized(argOrders[k]) =>
                   /\ argOrders[k] \in Range(AllStops(routes))
                   /\ AllNumbers(argOrders) => Alone(argOrders[k])
        /\ SingleOrderSingleRoute

\* A call has returned for a list of numbers in which an oversized
\* destination follows one that is not, and some route has several stops.
C5_Witness ==
    /\ pc = "done"
    /\ AllNumbers(argOrders)
    /\ \E j, k \in 1..Len(argOrders) :
           j < k /\ ~Oversized(argOrders[j]) /\ Oversized(argOrders[k])
    /\ \E i \in 1..Len(routes) : Len(routes[i].orders) >= 2

\* The stop lists of a list of routes.
StopLists(rs) == [i \in 1..Len(rs) |-> rs[i].orders]

\* C6: a call that gets the list the previous call got returns the same
\* number of routes with the same stops in the same order.
C6_Deterministic ==
    (pc = "done" /\ rendered /\ prevOrders = argOrders)
        => StopLists(routes) = StopLists(prevRoutes)

\* A second call on the same list has returned several routes.
C6_Witness ==
    /\ pc = "done"
    /\ rendered
    /\ prevOrders = argOrders
    /\ Len(routes) >= 2
    /\ \E i \in 1..Len(routes) : Len(routes[i].orders) >= 2

\* A route is starting right after the ceiling check closed the one before.
SeedAfterRejection ==
    pc = "inner" /\ currentRoute = <<>> /\ rejected # Null

\* C7 as stated: the candidate the ceiling check refused for route n is
\* the first stop of route n+1.
C7_Original == SeedAfterRejection => nextOrder = rejected

\* C7, amended: the candidate the ceiling check refused for route n is
\* still in the pool when route n+1 starts, and the first stop of route n+1
\* is the order earliest in input order among the unassigned ones: the
\* refused candidate only if no earlier order is still unassigned.
C7_SeedIsEarliest ==
    SeedAfterRejection =>
        /\ rejected \in Range(unassignedOrders)
        /\ nextOrder \in Range(unassignedOrders)
        /\ \A o \in Range(unassignedOrders) : nextOrder.id <= o.id

\* A route starts after a rejection with a seed that is not the refused
\* candidate.
C7_Witness == SeedAfterRejection /\ nextOrder # rejected

\* During a call the list of routes only grows at its end.
RoutesGrowAtEnd ==
    pc # "idle" =>
        /\ Len(routes') >= Len(routes)
        /\ \A i \in 1..Len(routes) : routes'[i] = routes[i]

\* C8: routes are built one after another: a closed route keeps its place
\* in the list and its stops while later routes are built and closed, so
\* the list is in creation order.
C8_ClosedRoutesFrozen == [][RoutesGrowAtEnd]_vars

\* Route 3 has two stops while routes 1 and 2 are closed.
C8_Witness ==
    /\ pc = "inner"
    /\ Len(routes) >= 2
    /\ Len(currentRoute) >= 2

\* C9: the caller's list is what it was when the call began, during the
\* call and after it.
C9_InputUnchanged == pc # "idle" => orders = argOrders

\* A call that spliced its pool several times has returned.
C9_Witness ==
    /\ pc = "done"
    /\ Len(orders) >= 3
    /\ Len(AllStops(routes)) >= 3

\* C10: for the empty list the result is the empty list of routes.
C10_EmptyInput == (pc = "done" /\ argOrders = <<>>) => routes = <<>>

\* A call with the empty list has returned.
C10_Witness == pc = "done" /\ argOrders = <<>> /\ orders = <<>>

\* The input of scenario A: the two near destinations, then the far one.
ScenarioA == << Order(1, NearA), Order(2, NextToNearA), Order(3, FarA) >>

\* C11: for the input (0, 0.01), (0, 0.02), (10, 10) with the origin at
\* (0, 0) the call returns exactly two routes, the first with the two near
\* destinations in input order and the second with the far one alone.
C11_ScenarioA ==
    (pc = "done" /\ argOrders = ScenarioA) =>
        StopLists(routes) = << << ScenarioA[1], ScenarioA[2] >>, << ScenarioA[3] >> >>

C11_Witness ==
    /\ pc = "done"
    /\ argOrders = ScenarioA
    /\ Len(routes) = 2
    /\ Greater(TravelTime(Distance(Origin, FarA)), FortyFiveMinutes)

\* The order o is delivered at most half a mile from the origin.
WithinHalfMile(o) ==
    LET d == Distance(Origin, o.deliveryLocation)
    IN  ~IsNaN(d) /\ 2 * d <= UnitsPerMile

\* The call was given eight orders, all within half a mile of the origin.
EightClustered ==
    /\ Len(argOrders) = 8
    /\ \A i \in 1..8 : WithinHalfMile(argOrders[i])

\* C12: eight destinations that all lie within half a mile of the origin,
\* in whatever order they are given, come back as exactly one route that
\* holds all eight.
C12_ClusterOneRoute ==
    (pc = "done" /\ EightClustered) =>
        /\ Len(routes) = 1
        /\ Len(routes[1].orders) = 8
        /\ Range(routes[1].orders) = Range(argOrders)

\* Eight clustered orders at more than one place were grouped.
C12_Witness ==
    /\ pc = "done"
    /\ EightClustered
    /\ Len(routes) = 1
    /\ Cardinality({ argOrders[i].deliveryLocation : i \in 1..8 }) = 3

\* A location that is no real place: a coordinate is NaN, or it is the
\* placeholder (0, 0).
Invalid(l) == IsNaN(l.lat) \/ IsNaN(l.lng) \/ (l.lat = 0 /\ l.lng = 0)

\* The origin or some destination of the call is invalid.
HasInvalid ==
    \/ Invalid(restaurantLocation)
    \/ \E i \in 1..Len(argOrders) : Invalid(argOrders[i].deliveryLocation)

\* The candidate whose fields the loop body reads is an order of the pool,
\* at the index that splice will remove.
CandidateIsPoolMember ==
    nextOrder # Null =>
        /\ nextOrderIndex \in 1..Len(unassignedOrders)
        /\ unassignedOrders[nextOrderIndex] = nextOrder

\* Every order of the call stands at exactly one position of the routes.
ExactlyOnce ==
    /\ \A k \in 1..Len(argOrders) :
          Occurrences(AllStops(routes), argOrders[k]) = 1
    /\ Len(AllStops(routes)) = Len(argOrders)

\* A step of a call with invalid coordinates lowers the rank, leaves no
\* undefined candidate to be read, and at the return every order is
\* assigned once.
InvalidStep ==
    HasInvalid' =>
        /\ VariantDecreases
        /\ pc' = "inner" => CandidateIsPoolMember'
        /\ (pc' = "done" /\ pc # "done") => ExactlyOnce'

\* C13: with a NaN coordinate or the placeholder (0, 0) at a destination or
\* at the origin, the loop body never reads a candidate that is not an
\* order of the pool (no error is thrown), every step lowers the rank (the
\* function terminates), and at the return every order is in exactly one
\* route.
C13_InvalidCoordinates == [][InvalidStep]_vars

\* A call over a geocoded order, a placeholder order and a NaN order has
\* returned.
C13_Witness ==
    /\ pc = "done"
    /\ \E i \in 1..Len(argOrders) : argOrders[i].deliveryLocation = NaNLocation
    /\ \E i \in 1..Len(argOrders) :
          argOrders[i].deliveryLocation = PlaceholderLocation
    /\ \E i \in 1..Len(argOrders) : ~Invalid(argOrders[i].deliveryLocation)
    /\ ~Invalid(restaurantLocation)
    /\ Len(routes) >= 2

\* a === b on numbers: NaN is equal to nothing, not even to itself.
StrictEqual(a, b) == ~IsNaN(a) /\ ~IsNaN(b) /\ a = b

\* Both coordinates of the location are numbers.
Numeric(l) == ~IsNaN(l.lat) /\ ~IsNaN(l.lng)

\* The points calculateDistance is applied to during the call: the origin,
\* the current location, and the destinations of the orders.
PointsOfCall ==
    { Loc(restaurantLocation.lat, restaurantLocation.lng),
      Loc(currentLocation.lat, currentLocation.lng) }
    \cup { argOrders[i].deliveryLocation : i \in 1..Len(argOrders) }

RECURSIVE SumOfLegs(_, _)
SumOfLegs(stops, k) ==
    IF k = 0 THEN 0
    ELSE Plus(SumOfLegs(stops, k - 1),
              LegMinutes(IF k = 1 THEN Origin ELSE stops[k - 1].deliveryLocation,
                         stops[k]))

\* The sum of C15: the legs, and the way back without service time.
RoundTripSum(stops) ==
    Plus(SumOfLegs(stops, Len(stops)), ReturnMinutes(stops[Len(stops)]))

\* m whole minutes is the time t rounded to the nearest minute, halves
\* upwards; NaN for NaN.
NearestMinute(m, t) ==
    IF IsNaN(t) THEN IsNaN(m)
    ELSE /\ ~IsNaN(m)
         /\ 2 * m * TicksPerMinute - TicksPerMinute <= 2 * t
         /\ 2 * t < 2 * m * TicksPerMinute + TicksPerMinute

\* m whole minutes is exactly the time t.
SameTime(m, t) ==
    IF IsNaN(t) THEN IsNaN(m) ELSE ~IsNaN(m) /\ m * TicksPerMinute = t

\* C15 as stated: the estimated minutes of a finished route equal the sum
\* over its stops of (2.5 x leg distance + 3) plus 2.5 x the distance of the
\* return.
C15_Original ==
    \A i \in 1..Len(routes) :
        SameTime(routes[i].estimatedTime, RoundTripSum(routes[i].orders))

\* C15, amended: the estimated minutes of a finished route are the sum over
\* its stops, in visiting order from the origin, of (2.5 x leg distance + 3)
\* plus 2.5 x the distance of the return, without service time for the
\* return, rounded to the nearest whole minute.
C15_RoundedRoundTrip ==
    \A i \in 1..Len(routes) :
        NearestMinute(routes[i].estimatedTime, RoundTripSum(routes[i].orders))

\* A finished route of several stops whose sum is not a whole number of
\* minutes.
C15_Witness ==
    /\ pc = "done"
    /\ \E i \in 1..Len(routes) :
          /\ Len(routes[i].orders) >= 2
          /\ ~IsNaN(routes[i].estimatedTime)
          /\ RoundTripSum(routes[i].orders) % TicksPerMinute # 0
          /\ Greater(ReturnMinutes(routes[i].orders[Len(routes[i].orders)]), 0)

\* totalAmount of the first k stops, added up.
RECURSIVE AmountOfFirst(_, _)
AmountOfFirst(stops, k) ==
    IF k = 0 THEN 0 ELSE AmountOfFirst(stops, k - 1) + stops[k].totalAmount

\* C16: the totalValue of every route is the sum of totalAmount over the
\* orders of that route, no more and no fewer.
C16_TotalValue ==
    \A i \in 1..Len(routes) :
        routes[i].totalValue =
            AmountOfFirst(routes[i].orders, Len(routes[i].orders))

\* Routes of one and of several stops have been returned.
C16_Witness ==
    /\ pc = "done"
    /\ \E i, j \in 1..Len(routes) :
          /\ Len(routes[i].orders) >= 3
          /\ Len(routes[j].orders) = 1
          /\ routes[i].totalValue > routes[j].totalValue

\* C17: the k-th route of the list has the id route_k, so the ids of N
\* routes are route_1 .. route_N in list order, without gap or repeat, in
\* every call.
C17_SequentialIds ==
    \A k \in 1..Len(routes) : routes[k].id = << "route_", k >>

\* A second call of the component has returned three or more routes.
C17_Witness ==
    /\ pc = "done"
    /\ rendered
    /\ Len(routes) >= 3
    /\ routeCounter = Len(routes) + 1

\* The stop committed last to the route under construction.
LastStop == currentRoute[Len(currentRoute)]

\* Distance from the stop committed last to the pool member at index k.
FromLastStop(k) ==
    Distance(LastStop.deliveryLocation, unassignedOrders[k].deliveryLocation)

\* The pool holds the unassigned orders in input order.
PoolInInputOrder ==
    /\ Range(unassignedOrders) \subseteq Range(argOrders)
    /\ \A i, j \in 1..Len(unassignedOrders) :
          i < j => unassignedOrders[i].id < unassignedOrders[j].id

\* C18: after a commit that leaves the pool non-empty, the candidate is
\* the pool member at nextOrderIndex; no pool member is nearer to the stop
\* just committed; the members before it in pool order are all farther
\* (or at no comparable distance), so that among the nearest it is the
\* earliest; its distance is a number whenever some member's is, and when
\* no distance is a number it is the first pool member.  The pool is in
\* input order.  After a commit that empties the pool there is no
\* candidate.
C18_NearestCandidate ==
    (pc = "inner" /\ Len(currentRoute) > 0) =>
        /\ PoolInInputOrder
        /\ Len(unassignedOrders) = 0 => nextOrder = Null
        /\ Len(unassignedOrders) > 0 =>
              /\ nextOrderIndex \in 1..Len(unassignedOrders)
              /\ nextOrder = unassignedOrders[nextOrderIndex]
              /\ \A k \in 1..Len(unassignedOrders) :
                    /\ ~Less(FromLastStop(k), FromLastStop(nextOrderIndex))
                    /\ k < nextOrderIndex =>
                          ~StrictEqual(FromLastStop(k),
                                       FromLastStop(nextOrderIndex))
                    /\ ~IsNaN(FromLastStop(k)) =>
                          ~IsNaN(FromLastStop(nextOrderIndex))
              /\ IsNaN(FromLastStop(nextOrderIndex)) => nextOrderIndex = 1

\* The candidate is not the first pool member, and a later member is as
\* near as the candidate.
C18_Witness ==
    /\ pc = "inner"
    /\ Len(currentRoute) > 0
    /\ nextOrder # Null
    /\ nextOrderIndex > 1
    /\ \E k \in 1..Len(unassignedOrders) :
          /\ k > nextOrderIndex
          /\ StrictEqual(FromLastStop(k), FromLastStop(nextOrderIndex))

\* The orders that are in no route closed before route i: the stops of
\* route i and of the later routes, the route under construction, the pool.
NotInEarlierRoute(i) ==
    UNION { Range(routes[j].orders) : j \in i..Len(routes) }
    \cup Range(currentRoute) \cup Range(unassignedOrders)

\* A route has just been started and has no stop yet.
RouteStarts == pc = "inner" /\ currentRoute = <<>>

\* C19: when a route starts, the elapsed time is 0, the current location
\* is the origin and the candidate is the first element of the pool; that
\* candidate becomes the first stop, its leg measured from the origin, so
\* the first stop of every route is the order earliest in input order among
\* the orders not assigned to an earlier route, however far it is.
C19_RouteStart ==
    /\ RouteStarts =>
          /\ totalTime = 0
          /\ currentLocation = restaurantLocation
          /\ Len(unassignedOrders) > 0
          /\ nextOrder = unassignedOrders[1]
          /\ \A o \in Range(unassignedOrders) : nextOrder.id <= o.id
    /\ (pc = "inner" /\ Len(currentRoute) = 1) =>
          totalTime = LegMinutes(Origin, currentRoute[1])
    /\ (pc \in {"inner", "close"} /\ Len(currentRoute) > 0) =>
          \A o \in Range(currentRoute) \cup Range(unassignedOrders) :
              currentRoute[1].id <= o.id
    /\ \A i \in 1..Len(routes) :
          \A o \in NotInEarlierRoute(i) : routes[i].orders[1].id <= o.id

\* A route after the first starts with a candidate that is farther from
\* the origin than another order of the pool.
C19_Witness ==
    /\ RouteStarts
    /\ Len(routes) >= 1
    /\ \E k \in 1..Len(unassignedOrders) :
          Less(Distance(Origin, unassignedOrders[k].deliveryLocation),
               Distance(Origin, nextOrder.deliveryLocation))

\* 35 minutes, the soft cap the claims speak of.
ThirtyFiveMinutes == 35 * TicksPerMinute

\* Elapsed minutes of the route under construction: the legs to its stops
\* from the origin, service included.
Elapsed == SumOfLegs(currentRoute, Len(currentRoute))

\* The elapsed time has reached 35 minutes while a candidate exists.
CapReached ==
    /\ pc = "inner"
    /\ nextOrder # Null
    /\ ~IsNaN(Elapsed)
    /\ Elapsed >= ThirtyFiveMinutes

\* A step that commits a stop is taken below the cap; a step taken with
\* the cap reached leaves the loop without touching route or pool, the
\* candidate still in the pool; and the step after the loop pushes the
\* route.
CapStep ==
    /\ currentRoute' # currentRoute /\ currentRoute' # <<>> =>
          /\ currentRoute' = Append(currentRoute, nextOrder)
          /\ Less(Elapsed, ThirtyFiveMinutes)
    /\ CapReached =>
          /\ pc' = "close"
          /\ currentRoute' = currentRoute
          /\ unassignedOrders' = unassignedOrders
          /\ nextOrder \in Range(unassignedOrders')
    /\ (pc = "close" /\ currentRoute # <<>>) =>
          /\ Len(routes') = Len(routes) + 1
          /\ routes'[Len(routes')].orders = currentRoute
          /\ unassignedOrders' = unassignedOrders

\* C20: a stop is committed only while the elapsed minutes of the route
\* before that stop are below 35; with 35 or more elapsed the route is
\* closed though a candidate exists, and the candidate stays in the pool.
C20_SoftCap == [][CapStep]_vars

\* The loop was left at 35 minutes or more with a candidate, the route is
\* about to be pushed, and the candidate is in the pool.
C20_Witness ==
    /\ pc = "close"
    /\ nextOrder # Null
    /\ nextOrder \in Range(unassignedOrders)
    /\ rejected = Null
    /\ ~IsNaN(Elapsed)
    /\ Elapsed >= ThirtyFiveMinutes

\* The two lists hold the same orders, in whatever order.
IsPermutation(a, b) == Len(a) = Len(b) /\ Range(a) = Range(b)

\* The grouping of a result: which orders ride together.
Grouping(rs) == { Range(rs[i].orders) : i \in 1..Len(rs) }

\* The previous call got a permutation of the list of the call that has
\* just returned.
CalledOnPermutation ==
    pc = "done" /\ rendered /\ IsPermutation(prevOrders, argOrders)

MapRoutes == MapGroupOrdersIntoRoutes(argOrders)

\* C22: for every order list and origin the map's groupOrdersIntoRoutes
\* and the sidebar's return the same number of routes, with the same
\* orders in the same stop order and the same ids.
C22_MapAgreesWithSidebar ==
    pc = "done" =>
        /\ Len(MapRoutes) = Len(routes)
        /\ \A i \in 1..Len(routes) :
              /\ MapRoutes[i].orders = routes[i].orders
              /\ MapRoutes[i].id = routes[i].id

\* Both have grouped four orders, one without coordinates, into several
\* routes, one of them with several stops.
C22_Witness ==
    /\ pc = "done"
    /\ Len(argOrders) >= 4
    /\ \E i \in 1..Len(argOrders) : argOrders[i].deliveryLocation = NaNLocation
    /\ Len(MapRoutes) >= 2
    /\ \E i \in 1..Len(MapRoutes) : Len(MapRoutes[i].orders) >= 2

\* The segment of the origin in a deep link.
OriginSegment == << "encoded", restaurantLocation.address >>

\* The segment of the stop o in a deep link.
StopSegment(o) == << "encoded", o.deliveryAddress >>

\* C23: the deep link of a route has one segment more at either end than
\* the route has stops: the first and the last segment are the origin, and
\* the segment after the k-th is the address of the k-th stop in visiting
\* order, so every stop has its one place between the two origins.
C23_DeepLinkOrder ==
    \A i \in 1..Len(routes) :
        LET url   == routes[i].googleMapsUrl
            stops == routes[i].orders
        IN  /\ Len(url) = Len(stops) + 2
            /\ url[1] = OriginSegment
            /\ url[Len(url)] = OriginSegment
            /\ \A k \in 1..Len(stops) : url[k + 1] = StopSegment(stops[k])

\* A route is returned whose visiting order is not the input order.
C23_Witness ==
    /\ pc = "done"
    /\ \E i \in 1..Len(routes) :
          /\ Len(routes[i].orders) >= 3
          /\ \E k \in 1..(Len(routes[i].orders) - 1) :
                routes[i].orders[k].id > routes[i].orders[k + 1].id

\* The routes are shown again after the operator moved an order from one
\* route to another.
ShownAfterMove == pc = "done" /\ moved # NoMove /\ moved.to # 0

\* C24: after an order was moved from route i to another route j, the
\* routes shown have that order as a stop of route j and not of route i.
C24_MovedToTarget ==
    ShownAfterMove =>
        /\ moved.to <= Len(routes)
        /\ moved.order \in Range(routes[moved.to].orders)
        /\ moved.order \notin Range(routes[moved.from].orders)

\* The routes are shown again after an order was dropped on the queue.
ShownAfterQueueDrop == pc = "done" /\ moved # NoMove /\ moved.to = 0

\* C25: after an order was dropped on the queue zone it is a stop of no
\* displayed route.
C25_Unassigned ==
    ShownAfterQueueDrop =>
        \A i \in 1..Len(routes) :
            \A k \in 1..Len(routes[i].orders) :
                routes[i].orders[k].id # moved.order.id

\* A Square batch has been merged into the list of App.
AfterLoad == loaded.merged

\* The list the batch was merged into is the head of the list of App,
\* order by order.
EarlierOrdersKept ==
    /\ Len(loaded.before) <= Len(appOrders)
    /\ \A i \in 1..Len(loaded.before) : appOrders[i] = loaded.before[i]

RoundTripEstimate(route) == RoundTripSum(route.orders)

OverlappingRunsEnded ==
    /\ hook.overlapped
    /\ \A r \in 1..Len(hook.runs) : hook.runs[r] = "resolved"

\* The orders stored are those of the run that started last.
LastStartedStored == hook.orders = Len(hook.runs)

\* loading is true while a run is in flight.
LoadingWhileInFlight == InFlight # {} => hook.loading

\* C28: when runs of loadOrders overlap, the orders stored in the end are
\* those of the run that started last, and loading is true as long as any
\* run is in flight.
C28_LastRunWins ==
    /\ OverlappingRunsEnded => LastStartedStored
    /\ LoadingWhileInFlight

\* The ids of the orders of a list of stops.
OrderIds(stops) == { stops[k].id : k \in 1..Len(stops) }

\* C29: a route shown as archived consists of the orders it had when it was
\* archived: whatever is archived, restored or loaded, the id at any place
\* of archivedRoutes denotes, among the routes shown, the set of orders it
\* denoted when it was archived.
C29_ArchivedKeepsOrders ==
    pc = "done" =>
        \A k \in 1..Len(archive.archivedRoutes) :
            \A i \in 1..Len(routes) :
                routes[i].id = archive.archivedRoutes[k] =>
                    OrderIds(routes[i].orders) = OrderIds(archive.orders[k])

\* Local storage holds another location than the one the page works with.
SavedAnotherLocation ==
    getBusinessLocation(settings.localStorage) # restaurantLocation

\* A step leaves the origin alone; a step that changes local storage
\* changes nothing else; and every route pushed starts from the origin read
\* at load.
OriginStep ==
    /\ restaurantLocation' = restaurantLocation
    /\ restaurantLocation' = settings'.atLoad
    /\ settings'.atLoad = settings.atLoad
    /\ settings'.localStorage # settings.localStorage
         => UNCHANGED besideSettings
    /\ \A i \in 1..Len(routes') :
          routes'[i].googleMapsUrl[1]
              = encodeURIComponent(settings'.atLoad.address)

\* C30: the origin of groupOrdersIntoRoutes is fixed when the data module
\* is loaded: saving a location in Settings changes local storage only, and
\* the calls made afterwards still work with the origin read at load.
C30_OriginFixedAtLoad == [][OriginStep]_vars

\* A call that began after another location was saved has pushed a route
\* and is working on the next.
C30_Witness ==
    /\ SavedAnotherLocation
    /\ pc \in { "outer", "inner", "close" }
    /\ Len(routes) >= 1

====
